---- MODULE Spec2Model ----
(***************************************************************************)
(* InvoiceMerger: the file pipeline of utils.py (header-row filter, column *)
(* classifiers, standardizer), the store of database.py and the "Process   *)
(* Files" loop of app.py.                                                   *)
(*                                                                          *)
(* Text is a sequence of one-character strings, so that the regular        *)
(* expressions, float(), strip(), split() and isupper() of the source are  *)
(* computed on the characters.  A cell of a table is a record: [k |->      *)
(* "nan"] (missing), [k |-> "num", v |-> n] (a float, n in hundredths) or  *)
(* [k |-> "str", s |-> text].  A DataFrame is [columns, index, data] with  *)
(* data column-major: data[c][r] is the cell of column c in row r.         *)
(* Floating-point scores are computed as exact fractions.  A local of the  *)
(* source that is read several times is an operator parameter here, or is  *)
(* bound by \E v \in {e}, rather than a LET definition.                     *)
(***************************************************************************)
EXTENDS Integers, Sequences, FiniteSets, TLC

----------------------------------------------------------------------------
(* Characters and the str methods the source uses *)

UpperSeq == <<"A","B","C","D","E","F","G","H","I","J","K","L","M","N","O","P","Q","R","S","T","U","V","W","X","Y","Z">>
LowerSeq == <<"a","b","c","d","e","f","g","h","i","j","k","l","m","n","o","p","q","r","s","t","u","v","w","x","y","z">>
DigitSeq == <<"0","1","2","3","4","5","6","7","8","9">>

Range(f) == {f[ix] : ix \in DOMAIN f}

UpperSet == Range(UpperSeq)
LowerSet == Range(LowerSeq)
DigitSet == Range(DigitSeq)

IsUpperCh(c) == c \in UpperSet
IsLowerCh(c) == c \in LowerSet
IsDigitCh(c) == c \in DigitSet
IsSpaceCh(c) == c = " "
\* \w of the re module
IsWordCh(c) == IsUpperCh(c) \/ IsLowerCh(c) \/ IsDigitCh(c) \/ c = "_"

LowerCh(c) ==
    IF IsUpperCh(c) THEN LowerSeq[CHOOSE ix \in 1..26 : UpperSeq[ix] = c] ELSE c
UpperCh(c) ==
    IF IsLowerCh(c) THEN UpperSeq[CHOOSE ix \in 1..26 : LowerSeq[ix] = c] ELSE c
DigitVal(c) == (CHOOSE ix \in 1..10 : DigitSeq[ix] = c) - 1

\* the sequence f as an explicit tuple
Tup(f) == SubSeq(f, 1, Len(f))

\* str.lower(), str.upper()
Lower(s) == Tup([ix \in 1..Len(s) |-> LowerCh(s[ix])])
Upper(s) == Tup([ix \in 1..Len(s) |-> UpperCh(s[ix])])

\* s[a:b] with 1-based inclusive bounds
Slice(s, a, b) == IF a > b THEN <<>> ELSE SubSeq(s, a, b)

\* str.strip()
Strip(s) ==
    LET keep == {ix \in 1..Len(s) : ~IsSpaceCh(s[ix])}
    IN  IF keep = {} THEN <<>>
        ELSE LET a == CHOOSE ix \in keep : \A j \in keep : ix <= j
                 b == CHOOSE ix \in keep : \A j \in keep : ix >= j
             IN  SubSeq(s, a, b)

\* the smallest and the largest element of a non-empty set of integers
Min(S) == CHOOSE x \in S : \A y \in S : x <= y
Max(S) == CHOOSE x \in S : \A y \in S : x >= y

\* str.split(): the whitespace-separated words, in order
Split(s) ==
    LET starts == {ix \in 1..Len(s) : ~IsSpaceCh(s[ix]) /\ (ix = 1 \/ IsSpaceCh(s[ix - 1]))}
        start(k) == CHOOSE ix \in starts : Cardinality({j \in starts : j <= ix}) = k
        end(a) == Min({j \in a..Len(s) : j = Len(s) \/ IsSpaceCh(s[j + 1])})
    IN  Tup([k \in 1..Cardinality(starts) |-> SubSeq(s, start(k), end(start(k)))])

\* str.isupper(): at least one cased character and no lowercase one
IsUpperStr(s) ==
    /\ \E ix \in 1..Len(s) : IsUpperCh(s[ix])
    /\ \A ix \in 1..Len(s) : ~IsLowerCh(s[ix])

\* t in s
Contains(s, t) ==
    \E p \in 1..(Len(s) - Len(t) + 1) : SubSeq(s, p, p + Len(t) - 1) = t

\* str.replace(',', '.')
CommaToDot(s) == Tup([ix \in 1..Len(s) |-> IF s[ix] = "," THEN "." ELSE s[ix]])

\* float(s) succeeds: optional sign, digits with an optional point (at least
\* one digit), optional exponent; or inf / infinity / nan; surrounding
\* whitespace is ignored.
AllDigits(s) == Len(s) >= 1 /\ \A ix \in 1..Len(s) : IsDigitCh(s[ix])
Unsigned(s) == IF Len(s) >= 1 /\ s[1] \in {"+", "-"} THEN Tail(s) ELSE s
IsDecimal(s) ==
    LET dots == {ix \in 1..Len(s) : s[ix] = "."}
    IN  \/ AllDigits(s)
        \/ /\ Cardinality(dots) = 1
           /\ Len(s) >= 2
           /\ \A ix \in 1..Len(s) : ix \in dots \/ IsDigitCh(s[ix])
IsFloatBody(s) ==
    LET es == {ix \in 1..Len(s) : s[ix] \in {"e", "E"}}
    IN  \/ IsDecimal(s)
        \/ \E ix \in es : /\ IsDecimal(Slice(s, 1, ix - 1))
                         /\ AllDigits(Unsigned(Slice(s, ix + 1, Len(s))))
FloatParses(s) ==
    LET u == Unsigned(Strip(s))
    IN  \/ IsFloatBody(u)
        \/ Lower(u) \in {<<"i","n","f">>, <<"i","n","f","i","n","i","t","y">>, <<"n","a","n">>}

----------------------------------------------------------------------------
(* Regular expressions of the source.  A pattern is a sequence of elements: *)
(* a literal, \s* or (?:literal)*; IGNORECASE compares lower-cased text.    *)

Lit(t) == [t |-> "lit", s |-> t]
Ws == [t |-> "ws", s |-> <<>>]
Rep(t) == [t |-> "rep", s |-> t]

LitAt(s, pos, t) ==
    /\ pos + Len(t) - 1 <= Len(s)
    /\ \A k \in 1..Len(t) : LowerCh(s[pos + k - 1]) = LowerCh(t[k])

\* how many consecutive copies of t start at pos
RepsAt(s, pos, t) ==
    IF Len(t) = 0 THEN 0
    ELSE Max({n \in 0..Len(s) : \A m \in 0..(n - 1) : LitAt(s, pos + m * Len(t), t)})

\* how many consecutive whitespace characters start at pos
SpacesAt(s, pos) ==
    Min({j \in pos..(Len(s) + 1) : j > Len(s) \/ ~IsSpaceCh(s[j])}) - pos

\* elements k.. of pattern p match some text starting at position pos of s
MatchAt(p, k0, s, pos0) ==
    LET M[k \in 1..(Len(p) + 1), pos \in 1..(Len(s) + 1)] ==
            IF k > Len(p) THEN TRUE
            ELSE CASE p[k].t = "lit" ->
                        LitAt(s, pos, p[k].s) /\ M[k + 1, pos + Len(p[k].s)]
                   [] p[k].t = "ws" ->
                        \E n \in 0..SpacesAt(s, pos) : M[k + 1, pos + n]
                   [] p[k].t = "rep" ->
                        \E n \in 0..RepsAt(s, pos, p[k].s) :
                            M[k + 1, pos + n * Len(p[k].s)]
    IN  M[k0, pos0]

\* pattern.search(s) with re.IGNORECASE
Search(p, s) == \E pos \in 1..(Len(s) + 1) : MatchAt(p, 1, s, pos)

\* re.search(r'\b(w1|w2|...)\b', s), case-sensitive
WordSearch(words, s) ==
    \E w \in words : \E pos \in 1..(Len(s) - Len(w) + 1) :
        /\ SubSeq(s, pos, pos + Len(w) - 1) = w
        /\ (pos = 1 \/ ~IsWordCh(s[pos - 1]))
        /\ (pos + Len(w) - 1 = Len(s) \/ ~IsWordCh(s[pos + Len(w)]))

\* re.search(r'[A-Z][a-z]', s)
CapitalThenLower(s) ==
    \E ix \in 1..(Len(s) - 1) : IsUpperCh(s[ix]) /\ IsLowerCh(s[ix + 1])

----------------------------------------------------------------------------
(* Cells and columns *)

NaN == [k |-> "nan"]
Num(n) == [k |-> "num", v |-> n]
Str(t) == [k |-> "str", s |-> t]

\* pd.isna(cell) / cell is None
isna(cell) == cell.k = "nan"

\* the decimal digits of a natural number
FmtNat[n \in Nat] ==
    IF n < 10 THEN <<DigitSeq[n + 1]>>
    ELSE FmtNat[n \div 10] \o <<DigitSeq[(n % 10) + 1]>>

\* str(x) of a float x given in hundredths: 1250 -> "12.5", 9900 -> "99.0"
StrNum(v) ==
    LET a == IF v < 0 THEN -v ELSE v
        r == a % 100
        frac == IF r % 10 = 0 THEN <<DigitSeq[(r \div 10) + 1]>>
                ELSE <<DigitSeq[(r \div 10) + 1], DigitSeq[(r % 10) + 1]>>
    IN  (IF v < 0 THEN <<"-">> ELSE <<>>) \o FmtNat[a \div 100] \o <<".">> \o frac

\* str(cell) of a non-missing cell
str(cell) == IF cell.k = "num" THEN StrNum(cell.v) ELSE cell.s

\* the natural number a sequence of digits denotes
DigitsVal(s) ==
    LET v[k \in 0..Len(s)] == IF k = 0 THEN 0 ELSE 10 * v[k - 1] + DigitVal(s[k])
    IN  v[Len(s)]

\* the position of the decimal point of u, Len(u) + 1 when it has none
DotAt(u) == Min({ix \in 1..(Len(u) + 1) : ix = Len(u) + 1 \/ u[ix] = "."})

\* the hundredths a fractional part of at most two digits denotes
FracVal(fp) ==
    IF Len(fp) = 0 THEN 0
    ELSE IF Len(fp) = 1 THEN 10 * DigitsVal(fp)
    ELSE DigitsVal(SubSeq(fp, 1, 2))

\* the value, in hundredths, of an unsigned decimal text u with its decimal
\* point at d
Magnitude(u, d) == 100 * DigitsVal(Slice(u, 1, d - 1)) + FracVal(Slice(u, d + 1, Len(u)))

Sign(t) == IF Len(t) >= 1 /\ t[1] = "-" THEN -1 ELSE 1

\* the value, in hundredths, of a decimal text with at most two fractional
\* digits and no exponent
Centi(s) ==
    Sign(Strip(s)) * Magnitude(Unsigned(Strip(s)), DotAt(Unsigned(Strip(s))))

\* pd.to_numeric(cell, errors='coerce'): the comma is not a decimal point here
to_numeric(cell) ==
    IF cell.k = "num" THEN cell
    ELSE IF cell.k = "str" /\ IsDecimal(Unsigned(Strip(cell.s))) THEN Num(Centi(cell.s))
    ELSE NaN

Count(S) == Cardinality(S)

is_numeric(value) == FloatParses(CommaToDot(value))

\* column: a sequence of cells
is_numeric_column(column) ==
    LET ok == {ix \in 1..Len(column) : ~isna(to_numeric(column[ix]))}
    IN  2 * Count(ok) >= Len(column)

\* pd.api.types.is_numeric_dtype: the parser gives a column a numeric dtype
\* when every cell of it is a number or missing
is_numeric_dtype(column) == \A ix \in 1..Len(column) : column[ix].k # "str"

\* seq.astype(str)
AsStr(cells) == Tup([ix \in 1..Len(cells) |-> str(cells[ix])])
\* seq.head(n)
FirstN(t, n) == IF Len(t) <= n THEN t ELSE SubSeq(t, 1, n)
\* column.dropna().astype(str).head(n)
DropNaStr(column) == AsStr(SelectSeq(column, LAMBDA cell : ~isna(cell)))
Sample(column, n) == FirstN(DropNaStr(column), n)

SumSeq(q) ==
    LET t[k \in 0..Len(q)] == IF k = 0 THEN 0 ELSE t[k - 1] + q[k]
    IN  t[Len(q)]

----------------------------------------------------------------------------
(* Header-row filter *)

header_pattern == {<<"n","a","m","e">>, <<"c","o","m","p","a","n","y">>, <<"c","u","r","r","e","n","c","y">>, <<"p","r","i","c","e">>, <<"a","m","o","u","n","t">>,
                   <<"t","o","t","a","l">>, <<"i","n","v","o","i","c","e">>, <<"d","a","t","e">>, <<"s","u","m">>, <<"v","e","n","d","o","r">>}

HeaderKeyword(s) == \E w \in header_pattern : Contains(Lower(s), w)

\* is_header_row with the keyword threshold at a half
is_header_row_half(row) ==
    LET non_empty == {ix \in 1..Len(row) :
                        ~isna(row[ix]) /\ Strip(str(row[ix])) # <<>>}
        header_keyword_count ==
            Count({ix \in non_empty : HeaderKeyword(Strip(str(row[ix])))})
        non_numeric_count ==
            Count({ix \in non_empty :
                     ~FloatParses(CommaToDot(Strip(str(row[ix]))))})
        non_empty_cells == Count(non_empty)
    IN  IF non_empty_cells = 0 THEN FALSE
        ELSE \/ 10 * header_keyword_count > 5 * non_empty_cells
             \/ 10 * non_numeric_count > 7 * non_empty_cells

is_header_row(row) ==
    LET non_empty == {ix \in 1..Len(row) :
                        ~isna(row[ix]) /\ Strip(str(row[ix])) # <<>>}
        header_keyword_count ==
            Count({ix \in non_empty : HeaderKeyword(Strip(str(row[ix])))})
        non_numeric_count ==
            Count({ix \in non_empty :
                     ~FloatParses(CommaToDot(Strip(str(row[ix]))))})
        non_empty_cells == Count(non_empty)
    IN  IF non_empty_cells = 0 THEN FALSE
        ELSE \/ 10 * header_keyword_count > 3 * non_empty_cells
             \/ 10 * non_numeric_count > 7 * non_empty_cells

----------------------------------------------------------------------------
(* DataFrames *)

\* the value of an undetected role; no column label equals it
None == <<"None">>

ColumnOf(df, label) == df.data[CHOOSE c \in 1..Len(df.columns) : df.columns[c] = label]

\* row r of df as the sequence of its cells (df.iterrows())
RowOf(df, r) == Tup([c \in 1..Len(df.columns) |-> df.data[c][r]])

\* df.empty
empty(df) == df.index = 0 \/ Len(df.columns) = 0

\* a score as an exact fraction n/d, d > 0
Frac(n, d) == [n |-> n, d |-> d]
Gt(a, b) == a.n * b.d > b.n * a.d
Ge(a, b) == a.n * b.d >= b.n * a.d

\* candidates.sort(key=score, reverse=True); candidates[0]: the first
\* candidate, in column order, that no other candidate outscores
TopCandidate(cands) ==
    cands[CHOOSE ix \in 1..Len(cands) :
            /\ \A j \in 1..Len(cands) : ~Gt(cands[j].score, cands[ix].score)
            /\ \A j \in 1..(ix - 1) : Gt(cands[ix].score, cands[j].score)]

\* the column of the top candidate when its score is above (TopAbove), or
\* not below (TopFrom), the threshold of the tier; None otherwise
TopAbove(cands, threshold) ==
    IF cands # <<>> /\ Gt(TopCandidate(cands).score, threshold)
    THEN TopCandidate(cands).col ELSE None
TopFrom(cands, threshold) ==
    IF cands # <<>> /\ Ge(TopCandidate(cands).score, threshold)
    THEN TopCandidate(cands).col ELSE None

\* the (col, score) list a content tier builds, in column order: skip is
\* the set of the columns (by position) the loop skips, score[c] the score
\* of column c
Candidates(df, skip, score) ==
    LET kept == SelectSeq([c \in 1..Len(df.columns) |-> c], LAMBDA c : c \notin skip)
    IN  Tup([ix \in 1..Len(kept) |->
                [col |-> df.columns[kept[ix]], score |-> score[kept[ix]]]])

ColumnNumbers(df) == 1..Len(df.columns)

\* for pattern in patterns: for col in labels: if pattern.search(col): return col
NameTier(patterns, labels) ==
    LET hits == {h \in (1..Len(patterns)) \X (1..Len(labels)) :
                    Search(patterns[h[1]], labels[h[2]])}
    IN  IF hits = {} THEN None
        ELSE LET h == CHOOSE h \in hits : \A g \in hits :
                          h[1] < g[1] \/ (h[1] = g[1] /\ h[2] <= g[2])
             IN  labels[h[2]]

AllNumeric(sample) == \A ix \in 1..Len(sample) : is_numeric(sample[ix])
TotalLen(sample) == SumSeq([ix \in 1..Len(sample) |-> Len(sample[ix])])
TotalWords(sample) == SumSeq([ix \in 1..Len(sample) |-> Len(Split(sample[ix]))])

----------------------------------------------------------------------------
(* Field classifiers *)

company_name_patterns ==
    << <<Lit(<<"c","o","m","p","a","n","y">>), Ws, Rep(<<"f","u","l","l">>), Ws, Lit(<<"n","a","m","e">>)>>,
       <<Lit(<<"f","u","l","l">>), Ws, Lit(<<"n","a","m","e">>)>>,
       <<Lit(<<"v","e","n","d","o","r">>), Ws, Lit(<<"n","a","m","e">>)>>,
       <<Lit(<<"s","u","p","p","l","i","e","r">>), Ws, Lit(<<"n","a","m","e">>)>>,
       <<Lit(<<"b","u","s","i","n","e","s","s">>), Ws, Lit(<<"n","a","m","e">>)>>,
       <<Lit(<<"c","l","i","e","n","t">>), Ws, Lit(<<"n","a","m","e">>)>>,
       <<Lit(<<"f","u","l","l">>), Ws, Lit(<<"c","o","m","p","a","n","y">>)>>,
       <<Lit(<<"c","o","m","p","a","n","y">>)>> >>

business_terms == {<<"I","n","c">>, <<"L","L","C">>, <<"L","t","d">>, <<"G","m","b","H">>, <<"C","o","r","p">>, <<"C","o","m","p","a","n","y">>, <<"C","o">>}

\* score = avg_words*2 + has_capitalization*3 + avg_length*0.1 + business_terms*4
\* of the sample (the first 10 non-missing values, as text)
FullNameScoreOf(sample) ==
    LET n == Len(sample)
        has_capitalization ==
            IF 2 * Count({ix \in 1..n : CapitalThenLower(sample[ix])}) > n THEN 1 ELSE 0
        has_terms ==
            IF 5 * Count({ix \in 1..n : WordSearch(business_terms, sample[ix])}) > n
            THEN 1 ELSE 0
    IN  Frac(20 * TotalWords(sample) + 30 * n * has_capitalization
             + TotalLen(sample) + 40 * n * has_terms, 10 * n)

FullNameScore(column) == FullNameScoreOf(Sample(column, 10))

FullNameSkip(col, column) == AllNumeric(Sample(column, 10))

detect_full_company_name(df) ==
    LET byName == NameTier(company_name_patterns, df.columns)
    IN  IF byName # None THEN byName
        ELSE TopAbove(Candidates(df,
                {c \in ColumnNumbers(df) : FullNameSkip(df.columns[c], df.data[c])},
                [c \in ColumnNumbers(df) |-> FullNameScore(df.data[c])]), Frac(2, 1))

short_name_patterns ==
    << <<Lit(<<"s","h","o","r","t">>), Ws, Rep(<<"c","o","m","p","a","n","y">>), Ws, Lit(<<"n","a","m","e">>)>>,
       <<Lit(<<"c","o","m","p","a","n","y">>), Ws, Lit(<<"s","h","o","r","t">>), Ws, Lit(<<"n","a","m","e">>)>>,
       <<Lit(<<"a","b","b","r","e","v">>)>>,
       <<Lit(<<"s","h","o","r","t">>)>>,
       <<Lit(<<"c","o","d","e">>)>>,
       <<Lit(<<"a","c","r","o","n","y","m">>)>> >>

\* score = length_score + uppercase_score + word_score of the sample
ShortNameScoreOf(sample) ==
    LET n == Len(sample)
        L == TotalLen(sample)
        uppercase_score ==
            IF 2 * Count({ix \in 1..n : IsUpperStr(sample[ix])}) > n THEN 2 ELSE 0
        word_score == IF TotalWords(sample) <= 2 * n THEN 3 ELSE 0
        length_num == IF L < 15 * n THEN 10 * n ELSE 0
    IN  Frac(length_num + (uppercase_score + word_score) * (L + n), L + n)

ShortNameScore(column) == ShortNameScoreOf(Sample(column, 10))

ShortNameSkip(col, column, full_name_col) ==
    col = full_name_col \/ AllNumeric(Sample(column, 10))

detect_short_company_name(df, full_name_col) ==
    LET byName == NameTier(short_name_patterns, df.columns)
    IN  IF byName # None THEN byName
        ELSE TopAbove(Candidates(df,
                {c \in ColumnNumbers(df) :
                    ShortNameSkip(df.columns[c], df.data[c], full_name_col)},
                [c \in ColumnNumbers(df) |-> ShortNameScore(df.data[c])]), Frac(2, 1))

currency_patterns == << <<Lit(<<"c","u","r","r","e","n","c","y">>)>>, <<Lit(<<"c","u","r","r">>)>>, <<Lit(<<"c","c","y">>)>> >>

currency_codes == {<<"U","S","D">>, <<"E","U","R">>, <<"G","B","P">>, <<"J","P","Y">>, <<"A","U","D">>, <<"C","A","D">>, <<"C","H","F">>,
                   <<"C","N","Y">>, <<"I","N","R">>}
\* of the symbols of the source only the dollar sign is in the modelled alphabet
currency_symbols == {<<"$">>}

\* score = code_matches*2 + symbol_matches*2 + length_score of the sample
CurrencyScoreOf(sample) ==
    LET n == Len(sample)
        L == TotalLen(sample)
        code_matches == Count({ix \in 1..n : Upper(Strip(sample[ix])) \in currency_codes})
        symbol_matches ==
            Count({ix \in 1..n : \E y \in currency_symbols : Contains(sample[ix], y)})
        length_score == IF n > 0 /\ n <= L /\ L <= 4 * n THEN 2 ELSE 0
    IN  Frac(code_matches * 2 + symbol_matches * 2 + length_score, 1)

CurrencyScore(column) == CurrencyScoreOf(Sample(column, 20))

CurrencySkip(col, column) == is_numeric_dtype(column)

\* best_match: the first column whose score is above 0 and above every
\* earlier score, and not below any later one (the update is on a strict >)
detect_currency(df) ==
    LET byName == NameTier(currency_patterns, df.columns)
    IN  IF byName # None THEN byName
        ELSE TopFrom(Candidates(df,
                {c \in ColumnNumbers(df) : CurrencySkip(df.columns[c], df.data[c])},
                [c \in ColumnNumbers(df) |-> CurrencyScore(df.data[c])]), Frac(2, 1))

price_patterns == << <<Lit(<<"p","r","i","c","e">>)>>, <<Lit(<<"a","m","o","u","n","t">>)>>, <<Lit(<<"t","o","t","a","l">>)>>,
                     <<Lit(<<"s","u","m">>)>>, <<Lit(<<"c","o","s","t">>)>>, <<Lit(<<"f","e","e">>)>>,
                     <<Lit(<<"v","a","l","u","e">>)>> >>

\* the labels, in order, of the columns that pass is_numeric_column
LabelsOf(df, kept) == Tup([ix \in 1..Len(kept) |-> df.columns[kept[ix]]])
NumericLabels(df) ==
    LabelsOf(df, SelectSeq([c \in 1..Len(df.columns) |-> c],
                           LAMBDA c : is_numeric_column(df.data[c])))

\* pd.to_numeric(column, errors='coerce').dropna(), in hundredths
ValuesOf(cells) == Tup([ix \in 1..Len(cells) |-> cells[ix].v])
NonNa(column) ==
    ValuesOf(SelectSeq(Tup([ix \in 1..Len(column) |-> to_numeric(column[ix])]),
                       LAMBDA cell : ~isna(cell)))

\* score = positive_ratio*2 + has_decimals*2 + magnitude_score of the
\* non-missing values
PriceScoreOf(values) ==
    LET k == Len(values)
        positive == Count({ix \in 1..k : values[ix] > 0})
        decimals == Count({ix \in 1..k : values[ix] % 100 # 0})
        total == SumSeq(values)
        magnitude_score == IF 10 * k <= total /\ total <= 100000000 * k THEN 1 ELSE 0
    IN  Frac(2 * positive + 2 * decimals + magnitude_score * k, k)

PriceScore(column) == PriceScoreOf(NonNa(column))

PriceSkip(col, column) ==
    \/ ~is_numeric_column(column)
    \/ 10 * (Len(column) - Len(NonNa(column))) > 7 * Len(column)
    \/ Len(NonNa(column)) = 0

detect_price(df) ==
    LET byName == NameTier(price_patterns, NumericLabels(df))
    IN  IF byName # None THEN byName
        ELSE TopFrom(Candidates(df,
                {c \in ColumnNumbers(df) : PriceSkip(df.columns[c], df.data[c])},
                [c \in ColumnNumbers(df) |-> PriceScore(df.data[c])]), Frac(2, 1))

Roles == <<"full_name", "short_name", "currency", "price">>

detect_columns(df) ==
    LET full == detect_full_company_name(df)
    IN  [full_name |-> full,
         short_name |-> detect_short_company_name(df, full),
         currency |-> detect_currency(df),
         price |-> detect_price(df)]

----------------------------------------------------------------------------
(* Short-name derivation *)

Unknown == Str(<<"U","n","k","n","o","w","n">>)

identifiers == {<<"i","n","c">>, <<"l","l","c">>, <<"l","t","d">>, <<"g","m","b","h">>, <<"c","o","r","p">>, <<"c","o","m","p","a","n","y">>, <<"c","o">>,
                <<"c","o","r","p","o","r","a","t","i","o","n">>, <<"l","i","m","i","t","e","d">>, <<"g","r","o","u","p">>}

\* the run of \w characters around position ix: its first and last position
WordStart(s, ix) == Max({j \in 1..ix : j = 1 \/ ~IsWordCh(s[j - 1])})
WordEnd(s, ix) == Min({j \in ix..Len(s) : j = Len(s) \/ ~IsWordCh(s[j + 1])})

\* re.sub(r'\b(Inc|LLC|...|Group)\b', '', s, flags=re.IGNORECASE): a match
\* lies between two word boundaries, so it is a whole run of \w characters
RemoveIdentifiers(s) ==
    LET removed(ix) == /\ IsWordCh(s[ix])
                      /\ Lower(SubSeq(s, WordStart(s, ix), WordEnd(s, ix))) \in identifiers
        kept == SelectSeq([ix \in 1..Len(s) |-> ix], LAMBDA ix : ~removed(ix))
    IN  Tup([k \in 1..Len(kept) |-> s[kept[k]]])

\* re.sub(r',\s*\w+$', '', s)
RemoveCommaTail(s) ==
    LET hits == {ix \in 1..Len(s) :
                    /\ s[ix] = ","
                    /\ LET j == ix + 1 + SpacesAt(s, ix + 1)
                       IN  /\ j <= Len(s)
                           /\ \A m \in j..Len(s) : IsWordCh(s[m])}
    IN  IF hits = {} THEN s
        ELSE Slice(s, 1, (CHOOSE ix \in hits : \A j \in hits : ix <= j) - 1)

\* ''.join(word[0].upper() for word in words)
Acronym(words) == Tup([ix \in 1..Len(words) |-> UpperCh(words[ix][1])])

\* the short name of a cleaned name: the acronym of its words when there
\* are several, its first 10 characters otherwise
ShortOf(cleaned_name, words) ==
    IF Len(words) > 1 /\ Len(Acronym(words)) >= 2 THEN Str(Acronym(words))
    ELSE IF Len(cleaned_name) <= 10 THEN Str(cleaned_name)
    ELSE Str(SubSeq(cleaned_name, 1, 10))

CleanedName(full_name) == Strip(RemoveCommaTail(Strip(RemoveIdentifiers(full_name))))

\* x: a non-missing cell
generate_short_name(x) ==
    IF (x.k = "str" /\ x.s = <<>>) \/ (x.k = "num" /\ x.v = 0) \/ isna(x)
    THEN Unknown
    ELSE ShortOf(CleanedName(Strip(str(x))), Split(CleanedName(Strip(str(x)))))

----------------------------------------------------------------------------
(* Standardizer *)

\* pd.DataFrame()
EmptyFrame == [columns |-> <<>>, index |-> 0, data |-> <<>>]

\* frame[name] = scalar: the scalar is broadcast over the index the frame
\* has now, so a frame without rows gets a column without rows
SetScalar(frame, name, cell) ==
    [columns |-> Append(frame.columns, name),
     index |-> frame.index,
     data |-> Append(frame.data, Tup([r \in 1..frame.index |-> cell]))]

\* frame[name] = series: a frame without rows takes the index of the series
\* and its existing columns are filled with NaN; otherwise the series is
\* aligned on the index of the frame
Aligned(series, n) == Tup([r \in 1..n |-> IF r <= Len(series) THEN series[r] ELSE NaN])
Reindexed(frame, n) ==
    IF frame.index = 0
    THEN Tup([c \in 1..Len(frame.data) |-> Tup([r \in 1..n |-> NaN])])
    ELSE frame.data
SeriesIndex(frame, series) == IF frame.index = 0 THEN Len(series) ELSE frame.index
SetSeries(frame, name, series) ==
    [columns |-> Append(frame.columns, name),
     index |-> SeriesIndex(frame, series),
     data |-> Append(Reindexed(frame, SeriesIndex(frame, series)),
                     Aligned(series, SeriesIndex(frame, series)))]

\* if detected_columns[role]:
Truthy(label) == label # None /\ label # <<>>

\* series.apply(lambda x: generate_short_name(x) if pd.notna(x) else "Unknown")
ShortNames(series) ==
    Tup([r \in 1..Len(series) |->
            IF ~isna(series[r]) THEN generate_short_name(series[r]) ELSE Unknown])

\* pd.to_numeric(series, errors='coerce')
ToNumeric(series) == Tup([r \in 1..Len(series) |-> to_numeric(series[r])])

\* the four assignments of standardize_dataframe, each on the frame the
\* one before it left
WithFullName(frame, df, detected_columns) ==
    IF Truthy(detected_columns.full_name)
    THEN SetSeries(frame, "company_full_name", ColumnOf(df, detected_columns.full_name))
    ELSE SetScalar(frame, "company_full_name", Unknown)

WithShortName(frame, df, detected_columns) ==
    IF Truthy(detected_columns.short_name)
    THEN SetSeries(frame, "company_short_name", ColumnOf(df, detected_columns.short_name))
    ELSE IF Truthy(detected_columns.full_name)
    THEN SetSeries(frame, "company_short_name",
                   ShortNames(ColumnOf(frame, "company_full_name")))
    ELSE SetScalar(frame, "company_short_name", Unknown)

WithCurrency(frame, df, detected_columns) ==
    IF Truthy(detected_columns.currency)
    THEN SetSeries(frame, "currency", ColumnOf(df, detected_columns.currency))
    ELSE SetScalar(frame, "currency", Unknown)

WithPrice(frame, df, detected_columns) ==
    IF Truthy(detected_columns.price)
    THEN SetSeries(frame, "price", ToNumeric(ColumnOf(df, detected_columns.price)))
    ELSE SetScalar(frame, "price", NaN)

standardize_dataframe(df, detected_columns) ==
    WithPrice(WithCurrency(WithShortName(WithFullName(EmptyFrame, df, detected_columns),
                                         df, detected_columns),
                           df, detected_columns),
              df, detected_columns)

----------------------------------------------------------------------------
(* File pipeline.  A file is [name, parses, df]: parses is FALSE when both  *)
(* read_csv attempts raise, and df is the table the parser returns.        *)

\* df.drop(rows_to_drop).reset_index(drop=True); kept: the rows left
Rows(df, kept) ==
    [columns |-> df.columns,
     index |-> Len(kept),
     data |-> Tup([c \in 1..Len(df.columns) |->
                     Tup([ix \in 1..Len(kept) |-> df.data[c][kept[ix]]])])]
drop(df, rows_to_drop) ==
    Rows(df, SelectSeq([r \in 1..df.index |-> r], LAMBDA r : r \notin rows_to_drop))

\* HeaderRows flagging only the first header row
HeaderRows_first(df) ==
    {r \in 1..df.index : /\ is_header_row(RowOf(df, r))
                         /\ \A q \in 1..(r - 1) : ~is_header_row(RowOf(df, q))}

\* rows_to_drop: every row that is_header_row flags
HeaderRows(df) == {r \in 1..df.index : is_header_row(RowOf(df, r))}

missing_columns(detected_columns) ==
    {ix \in 1..Len(Roles) : detected_columns[Roles[ix]] = None}

Raise(kind, filename) == [ok |-> FALSE, error |-> kind, file |-> filename]
Return(frame) == [ok |-> TRUE, df |-> frame]

\* Standardize with the role-count test off by one
Standardize_strict(df, detected_columns, filename) ==
    IF Count(missing_columns(detected_columns)) >= 2
    THEN Raise("Failed to detect required columns", filename)
    ELSE Return(standardize_dataframe(df, detected_columns))

\* the end of process_file: the role-count test and the standardizer
Standardize(df, detected_columns, filename) ==
    IF Count(missing_columns(detected_columns)) > 2
    THEN Raise("Failed to detect required columns", filename)
    ELSE Return(standardize_dataframe(df, detected_columns))

\* process_file from the header filter on; df: the parsed table without its
\* header rows
Detect(df, filename) ==
    IF empty(df) THEN Raise("contains only headers and no data", filename)
    ELSE Standardize(df, detect_columns(df), filename)

process_file(file) ==
    IF ~file.parses THEN Raise("Failed to parse file", file.name)
    ELSE IF empty(file.df) THEN Raise("is empty", file.name)
    ELSE Detect(drop(file.df, HeaderRows(file.df)), file.name)

----------------------------------------------------------------------------
(* Store: the invoices table is the sequence of its rows, in insertion      *)
(* order (the position is the autoincremented id).                          *)

Null == [k |-> "null"]
\* datetime.now()
now == [k |-> "ts"]

table_columns == <<"evse_id", "session_id", "currency", "price", "file_name",
                   "processed_date">>

HasColumn(df, name) == \E c \in 1..Len(df.columns) : df.columns[c] = name

\* the row the INSERT statement adds for row r of df: the columns of the
\* table that df lacks are left out of the statement and stay NULL
InsertedRow(df, r) ==
    LET value(n) == IF HasColumn(df, n) THEN ColumnOf(df, n)[r] ELSE Null
    IN  [evse_id |-> value(table_columns[1]), session_id |-> value(table_columns[2]),
         currency |-> value(table_columns[3]), price |-> value(table_columns[4]),
         file_name |-> value(table_columns[5]),
         processed_date |-> value(table_columns[6])]

\* UNIQUE(session_id): NULL keys never conflict
UniqueViolation(db, row) ==
    /\ row["session_id"] # Null
    /\ \E ix \in 1..Len(db) : db[ix]["session_id"] = row["session_id"]

\* InsertRows counting a failed insert as inserted
InsertRows_miscount(df, failing, db0) ==
    LET st[r \in 0..df.index] ==
            IF r = 0 THEN [db |-> db0, inserted_count |-> 0, skipped_count |-> 0]
            ELSE LET row == InsertedRow(df, r)
                     prev == st[r - 1]
                 IN  IF r \in failing \/ UniqueViolation(prev.db, row)
                     THEN [prev EXCEPT !.inserted_count = @ + 1]
                     ELSE [prev EXCEPT !.db = Append(@, row), !.inserted_count = @ + 1]
    IN  st[df.index]

\* the loop over df_filtered.iterrows(); failing: the rows whose execute()
\* raises another sqlite3.Error.  The result is [db, inserted_count,
\* skipped_count] after the last row.
InsertRows(df, failing, db0) ==
    LET st[r \in 0..df.index] ==
            IF r = 0 THEN [db |-> db0, inserted_count |-> 0, skipped_count |-> 0]
            ELSE LET row == InsertedRow(df, r)
                     prev == st[r - 1]
                 IN  IF r \in failing \/ UniqueViolation(prev.db, row)
                     THEN [prev EXCEPT !.skipped_count = @ + 1]
                     ELSE [prev EXCEPT !.db = Append(@, row), !.inserted_count = @ + 1]
    IN  st[df.index]

\* db_fault: "connect" (sqlite3.connect raises), "commit" (conn.commit
\* raises, nothing is committed) or "none".  df is the caller's object: the
\* two column assignments are made on it.
save_invoice_data(df, file_name, db, db_fault, failing) ==
    IF db_fault = "connect"
    THEN [raised |-> TRUE, db |-> db, df |-> df, inserted_count |-> 0, skipped_count |-> 0]
    ELSE LET df2 == SetScalar(SetScalar(df, "file_name", Str(file_name)),
                              "processed_date", now)
             st == InsertRows(df2, failing, db)
         IN  IF db_fault = "commit"
             THEN [raised |-> TRUE, db |-> db, df |-> df2,
                   inserted_count |-> 0, skipped_count |-> 0]
             ELSE [raised |-> FALSE, db |-> st.db, df |-> df2,
                   inserted_count |-> st.inserted_count,
                   skipped_count |-> st.skipped_count]

\* pd.concat([a, b], ignore_index=True)
concat(a, b) ==
    LET extra == SelectSeq(b.columns, LAMBDA n : ~HasColumn(a, n))
        columns == a.columns \o extra
        part(df, n) == IF HasColumn(df, n) THEN ColumnOf(df, n)
                       ELSE Tup([r \in 1..df.index |-> NaN])
    IN  [columns |-> columns,
         index |-> a.index + b.index,
         data |-> Tup([c \in 1..Len(columns) |->
                         part(a, columns[c]) \o part(b, columns[c])])]

----------------------------------------------------------------------------
(* Inputs: a library of columns, the tables made of them, and the files     *)

MaxCols == 3
MaxRows == 2
MaxBatch == 2
MaxRuns == 2
MaxUploads == 1

\* a column of the library: its label and its cells (repeated cyclically
\* when a table has more rows); text and numbers are never mixed in one
\* column, as the parser types a column as a whole
ColLib ==
    << [label |-> <<"C","o","m","p","a","n","y">>, cells |-> <<Str(<<"A","c","m","e"," ","T","r","a","d","i","n","g"," ","L","t","d">>), Str(<<"G","l","o","b","e","x",","," ","I","n","c">>)>>],
       [label |-> <<"C","u","r","r","e","n","c","y">>, cells |-> <<Str(<<"U","S","D">>), Str(<<"E","U","R">>)>>],
       [label |-> <<"P","r","i","c","e">>, cells |-> <<Num(9900), Num(1250)>>],
       [label |-> <<"C","o","m","p","a","n","y"," ","C","o","d","e">>, cells |-> <<Str(<<"A","C","M","E">>), Str(<<"G","L","X">>)>>],
       [label |-> <<"Q","t","y">>, cells |-> <<Num(300), NaN>>],
       [label |-> <<"A">>, cells |-> <<Num(0), Num(0)>>],
       [label |-> <<"N","o","t","e","s">>, cells |-> <<Str(<<"I","n","v","o","i","c","e"," ","t","o","t","a","l">>), NaN>>],
       [label |-> <<"C","o","d","e">>, cells |-> <<Num(700), Num(1200)>>] >>

EvseCols ==
    << [label |-> <<"E","V","S","E">>, cells |-> <<Str(<<"S","t","a","t","i","o","n","A","-","0","1">>), Str(<<"S","t","a","t","i","o","n","B","-","0","2">>)>>],
       [label |-> <<"S","e","s","s","i","o","n">>,
        cells |-> <<Str(<<"s","e","s","s","-","a","b","c","-","1","2","3","-","x","y","z">>), Str(<<"s","e","s","s","-","d","e","f","-","4","5","6","-","u","v","w">>)>>],
       [label |-> <<"C","u","r","r","e","n","c","y">>, cells |-> <<Str(<<"E","U","R">>), Str(<<"E","U","R">>)>>],
       [label |-> <<"N","e","t"," ","P","r","i","c","e">>, cells |-> <<Num(1250), Num(800)>>] >>

\* the table with the columns cols and n rows
Table(cols, n) ==
    [columns |-> Tup([c \in 1..Len(cols) |-> cols[c].label]),
     index |-> n,
     data |-> Tup([c \in 1..Len(cols) |->
                 Tup([r \in 1..n |-> cols[c].cells[((r - 1) % Len(cols[c].cells)) + 1]])])]

\* the sequences of 1..k distinct elements of 1..n
DistinctSeqs(n, k) ==
    UNION {{q \in [1..m -> 1..n] : \A a, b \in 1..m : a # b => q[a] # q[b]} : m \in 1..k}

Tables ==
    {Table(Tup([c \in 1..Len(q) |-> ColLib[q[c]]]), n) :
        q \in DistinctSeqs(Len(ColLib), MaxCols), n \in 1..MaxRows}

FileLib ==
    << [name |-> <<"b","a","d",".","c","s","v">>, parses |-> FALSE, df |-> EmptyFrame],
       [name |-> <<"e","m","p","t","y",".","c","s","v">>, parses |-> TRUE,
        df |-> Table(<<ColLib[1], ColLib[2], ColLib[3]>>, 0)],
       [name |-> <<"e","v","s","e",".","c","s","v">>, parses |-> TRUE, df |-> Table(EvseCols, MaxRows)],
       [name |-> <<"c","o","m","p",".","c","s","v">>, parses |-> TRUE,
        df |-> Table(<<ColLib[1], ColLib[2], ColLib[3]>>, MaxRows)],
       [name |-> <<"c","o","d","e",".","c","s","v">>, parses |-> TRUE,
        df |-> Table(<<ColLib[4], ColLib[3]>>, MaxRows)],
       [name |-> <<"n","u","m","s",".","c","s","v">>, parses |-> TRUE, df |-> Table(<<ColLib[6]>>, MaxRows)] >>

Batches == DistinctSeqs(Len(FileLib), MaxBatch)

\* process_file of every file of the library
Pipeline == Tup([f \in 1..Len(FileLib) |-> process_file(FileLib[f])])

\* the role maps handed to the standardizer: any subset of the roles
\* resolved, role number ix to column number ix of the table (cyclically)
RoleMaps(df) ==
    LET pick(S, ix) == IF Roles[ix] \in S
                      THEN df.columns[((ix - 1) % Len(df.columns)) + 1] ELSE None
    IN  {[full_name |-> pick(S, 1), short_name |-> pick(S, 2),
          currency |-> pick(S, 3), price |-> pick(S, 4)] : S \in SUBSET Range(Roles)}

----------------------------------------------------------------------------
(* State *)

VARIABLES
    uploaded_files,      \* st.file_uploader: the files, as indices of FileLib
    pc,                  \* "idle", "loop" (inside the for loop) or "done"
    i,                   \* the number of files the loop has finished
    combined_data,       \* st.session_state.combined_data
    processed_files,     \* st.session_state.processed_files
    processing_errors,   \* st.session_state.processing_errors
    db,                  \* the invoices table of invoices.db
    runs,                \* the number of clicks on "Process Files"
    uploads,             \* the number of uploads
    log,                 \* history: the outcome of every file of every run
    table,               \* the argument of a function applied on its own
    called,              \* the function applied, "" before
    result               \* what it returned

vars == <<uploaded_files, pc, i, combined_data, processed_files, processing_errors,
          db, runs, uploads, log, table, called, result>>

appVars == <<uploaded_files, pc, i, combined_data, processed_files,
             processing_errors, db, runs, uploads, log>>
fnVars == <<table, called, result>>

InitApp ==
    /\ uploaded_files = <<>>
    /\ pc = "idle"
    /\ i = 0
    /\ combined_data = EmptyFrame      \* None is read like the empty frame
    /\ processed_files = 0
    /\ processing_errors = <<>>
    /\ db = <<>>                       \* init_db()
    /\ runs = 0
    /\ uploads = 0
    /\ log = <<>>

InitFn == table = EmptyFrame /\ called = "" /\ result = EmptyFrame

Init == InitApp /\ InitFn

----------------------------------------------------------------------------
(* The "Process Files" loop of app.py *)

Message(text, level, file_name, inserted_count, skipped_count) ==
    [text |-> text, level |-> level, file |-> file_name,
     inserted |-> inserted_count, skipped |-> skipped_count]

\* Notifications with a tally for every saved file
Notifications_always(file_name, inserted_count, skipped_count, processed_df) ==
    <<Message("records were skipped due to being duplicates", "warning",
              file_name, inserted_count, skipped_count)>>

\* the notifications of a file that was processed and saved
Notifications(file_name, inserted_count, skipped_count, processed_df) ==
    IF skipped_count > 0
    THEN <<Message("records were skipped due to being duplicates", "warning",
                   file_name, inserted_count, skipped_count)>>
    ELSE IF inserted_count = 0 /\ ~empty(processed_df)
    THEN <<Message("All records were found to be duplicates", "info",
                   file_name, inserted_count, skipped_count)>>
    ELSE <<>>

\* the except clauses: one error notification
ErrorNotification(text, file_name) == <<Message(text, "error", file_name, 0, 0)>>

\* combined_data after the file's table is appended
Appended(combined, processed_df) ==
    IF empty(combined) THEN processed_df ELSE concat(combined, processed_df)

\* NextFile leaving the loop when a file raised
NextFile_abort(n, raised) == IF raised THEN Len(uploaded_files) ELSE n + 1

\* the loop position after a file, whether or not it raised
NextFile(n, raised) == n + 1

LogEntry(f, outcome, saved, rows) ==
    [run |-> runs, file |-> f, outcome |-> outcome,
     inserted |-> saved.inserted_count, skipped |-> saved.skipped_count,
     rows |-> rows]

NoSave == [inserted_count |-> 0, skipped_count |-> 0]

Upload(batch) ==
    /\ pc \in {"idle", "done"}
    /\ uploads < MaxUploads
    /\ uploaded_files' = batch
    /\ uploads' = uploads + 1
    /\ pc' = "idle"
    /\ UNCHANGED <<i, combined_data, processed_files, processing_errors, db, runs, log>>
    /\ UNCHANGED fnVars

ProcessFiles ==
    /\ pc \in {"idle", "done"}
    /\ uploaded_files # <<>>
    /\ runs < MaxRuns
    /\ combined_data' = EmptyFrame
    /\ processed_files' = 0
    /\ processing_errors' = <<>>
    /\ i' = 0
    /\ runs' = runs + 1
    /\ pc' = "loop"
    /\ UNCHANGED <<uploaded_files, db, uploads, log>>
    /\ UNCHANGED fnVars

DbFaults == {"none", "connect", "commit"}

\* the try body after process_file returned: saved is what
\* save_invoice_data returned or raised
AfterSave(f, file_name, saved) ==
    IF saved.raised
    THEN /\ processing_errors' = processing_errors \o
                ErrorNotification("Database error processing", file_name)
         /\ log' = Append(log, LogEntry(f, "database error", NoSave, 0))
         /\ i' = NextFile(i, TRUE)
         /\ UNCHANGED <<combined_data, processed_files, db>>
    ELSE /\ db' = saved.db
         /\ combined_data' = Appended(combined_data, saved.df)
         /\ processed_files' =
                IF saved.inserted_count > 0
                THEN processed_files + 1 ELSE processed_files
         /\ processing_errors' = processing_errors \o
                Notifications(file_name, saved.inserted_count,
                              saved.skipped_count, saved.df)
         /\ log' = Append(log, LogEntry(f, "ok", saved, saved.df.index))
         /\ i' = NextFile(i, FALSE)

\* db_fault and failing are the faults of the store during this call of
\* save_invoice_data
SaveFile(f, file_name, processed_df, db_fault, failing) ==
    AfterSave(f, file_name,
              save_invoice_data(processed_df, file_name, db, db_fault, failing))

\* the except ValueError clause
ValidationError(f, file_name, processed) ==
    /\ processing_errors' = processing_errors \o
            ErrorNotification("Validation error processing", file_name)
    /\ log' = Append(log, LogEntry(f, processed.error, NoSave, 0))
    /\ i' = NextFile(i, TRUE)
    /\ UNCHANGED <<combined_data, processed_files, db>>

\* one iteration of the loop, on file f with the outcome processed of its
\* pipeline
Iteration(f, file_name, processed) ==
    IF ~processed.ok
    THEN ValidationError(f, file_name, processed)
    ELSE \E db_fault \in DbFaults, failing \in SUBSET (1..processed.df.index) :
            SaveFile(f, file_name, processed.df, db_fault, failing)

ProcessFile ==
    /\ pc = "loop"
    /\ i < Len(uploaded_files)
    /\ Iteration(uploaded_files[i + 1], FileLib[uploaded_files[i + 1]].name,
                 Pipeline[uploaded_files[i + 1]])
    /\ UNCHANGED <<uploaded_files, pc, runs, uploads>>
    /\ UNCHANGED fnVars

Complete ==
    /\ pc = "loop"
    /\ i >= Len(uploaded_files)
    /\ pc' = "done"
    /\ UNCHANGED <<uploaded_files, i, combined_data, processed_files,
                   processing_errors, db, runs, uploads, log>>
    /\ UNCHANGED fnVars

Next ==
    \/ \E batch \in Batches : Upload(batch)
    \/ ProcessFiles
    \/ ProcessFile
    \/ Complete

Spec == Init /\ [][Next]_vars

----------------------------------------------------------------------------
(* The functions of utils.py applied on their own to a table *)

InitTable ==
    /\ InitApp
    /\ table \in Tables
    /\ called = ""
    /\ result = EmptyFrame

CallProcessFile ==
    /\ called = ""
    /\ called' = "process_file"
    /\ result' = process_file([name |-> <<"t",".","c","s","v">>, parses |-> TRUE, df |-> table])
    /\ UNCHANGED <<table>>
    /\ UNCHANGED appVars

CallDetectColumns ==
    /\ called = ""
    /\ called' = "detect_columns"
    /\ result' = detect_columns(table)
    /\ UNCHANGED <<table>>
    /\ UNCHANGED appVars

CallStandardize(detected_columns) ==
    /\ called = ""
    /\ called' = "standardize_dataframe"
    /\ result' = [detected_columns |-> detected_columns,
                  df |-> standardize_dataframe(table, detected_columns)]
    /\ UNCHANGED <<table>>
    /\ UNCHANGED appVars

NextTable ==
    \/ CallProcessFile
    \/ CallDetectColumns
    \/ \E detected_columns \in RoleMaps(table) : CallStandardize(detected_columns)

SpecTable == InitTable /\ [][NextTable]_vars

----------------------------------------------------------------------------
(* save_invoice_data applied on its own to tables that have the key column *)

MaxSaves == 2

Sessions == {<<"s","1">>, <<"s","2">>}

\* the tables with the columns of the invoices table and 1..MaxRows rows
InvoiceFrames ==
    {[columns |-> <<"evse_id", "session_id", "currency", "price">>,
      index |-> Len(q),
      data |-> <<Tup([r \in 1..Len(q) |-> Str(<<"E","1">>)]),
                 Tup([r \in 1..Len(q) |-> Str(q[r])]),
                 Tup([r \in 1..Len(q) |-> Str(<<"E","U","R">>)]),
                 Tup([r \in 1..Len(q) |-> Num(1250)])>>] :
        q \in UNION {[1..m -> Sessions] : m \in 1..MaxRows}}

Saved(df, db_fault, failing, saved) ==
    /\ called' = "save_invoice_data"
    /\ table' = df
    /\ result' = [saved |-> saved, before |-> db, failing |-> failing]
    /\ db' = saved.db
    /\ log' = Append(log, LogEntry(0, IF saved.raised THEN "database error" ELSE "ok",
                                   saved, df.index))

CallSave(df, db_fault, failing) ==
    /\ Len(log) < MaxSaves
    /\ Saved(df, db_fault, failing,
             save_invoice_data(df, <<"t",".","c","s","v">>, db, db_fault, failing))
    /\ UNCHANGED <<uploaded_files, pc, i, combined_data, processed_files,
                   processing_errors, runs, uploads>>

NextStore ==
    \E df \in InvoiceFrames, db_fault \in DbFaults, failing \in SUBSET (1..MaxRows) :
        CallSave(df, db_fault, failing)

SpecStore == Init /\ [][NextStore]_vars

----------------------------------------------------------------------------
(* generate_short_name applied on its own to a cell *)

MaxName == 3

\* the characters of the names: a letter pair that spells an identifier
\* ("Co"), another letter, the blank and the comma
NameChars == {"C", "o", "b", " ", ","}

\* the cells handed to generate_short_name: the missing value and every text
\* of at most MaxName characters
NameInputs ==
    {NaN} \cup {Str(Tup(q)) : q \in UNION {[1..m -> NameChars] : m \in 0..MaxName}}

InitName ==
    /\ InitApp
    /\ table \in NameInputs
    /\ called = ""
    /\ result = EmptyFrame

\* short = generate_short_name(x); again = generate_short_name(short)
CallShortName ==
    /\ called = ""
    /\ called' = "generate_short_name"
    /\ result' = [short |-> generate_short_name(table),
                  again |-> generate_short_name(generate_short_name(table))]
    /\ UNCHANGED <<table>>
    /\ UNCHANGED appVars

NextName == CallShortName

SpecName == InitName /\ [][NextName]_vars

----------------------------------------------------------------------------
(* is_header_row applied on its own to a row *)

MaxCells == 3

\* the cells of the rows: missing, blank, a keyword, a name, a float, a
\* number with a decimal comma, and a text that float() accepts
RowCells == {NaN, Str(<<" ">>), Str(<<"T","o","t","a","l">>), Str(<<"A","c","m","e">>), Num(1250),
             Str(<<"1",",","5">>), Str(<<"n","a","n">>)}

RowInputs == {Tup(q) : q \in UNION {[1..m -> RowCells] : m \in 1..MaxCells}}

InitRow ==
    /\ InitApp
    /\ table \in RowInputs
    /\ called = ""
    /\ result = EmptyFrame

CallIsHeaderRow ==
    /\ called = ""
    /\ called' = "is_header_row"
    /\ result' = is_header_row(table)
    /\ UNCHANGED <<table>>
    /\ UNCHANGED appVars

NextRow == CallIsHeaderRow

SpecRow == InitRow /\ [][NextRow]_vars

----------------------------------------------------------------------------
(* Properties *)

CanonicalColumns == <<"company_full_name", "company_short_name", "currency", "price">>

\* the log entries of the current run, in upload order
ThisRun == SelectSeq(log, LAMBDA e : e.run = runs)

\* the notifications recorded for the file at position j of the batch
NotesOf(j) ==
    SelectSeq(processing_errors, LAMBDA m : m.file = FileLib[uploaded_files[j]].name)

\* C1: for a table that still has rows after header filtering, process_file
\* fails, with the schema-detection error, if and only if more than 2 of the
\* 4 roles are undetected; otherwise it returns a table.
C1_SchemaFailure ==
    called = "process_file" =>
        \A df \in {drop(table, HeaderRows(table))} :
            ~empty(df) =>
                \A detected \in {detect_columns(df)} :
                    \A undetected \in {Cardinality({r \in Range(Roles) :
                                                      detected[r] = None})} :
                        /\ ~result.ok <=> undetected > 2
                        /\ ~result.ok =>
                               result.error = "Failed to detect required columns"
                        /\ result.ok => result.df.columns = CanonicalColumns

\* C1 witness: a table with rows left and exactly 3 undetected roles fails
C1_Witness ==
    /\ called = "process_file"
    /\ ~result.ok
    /\ result.error = "Failed to detect required columns"
    /\ \E df \in {drop(table, HeaderRows(table))} :
          /\ df.index > 0
          /\ Cardinality(missing_columns(detect_columns(df))) = 3

\* C2: when the batch is done every file of it was processed, in upload
\* order, to the outcome of its own pipeline; a file that failed left exactly
\* one error message and no row in the combined table.
C2_FailureScopedToFile ==
    pc = "done" =>
        \A run \in {ThisRun}, outcomes \in {Pipeline} :
            /\ Len(run) = Len(uploaded_files)
            /\ \A j \in 1..Len(run) :
                 \A e \in {run[j]}, p \in {outcomes[uploaded_files[j]]} :
                     /\ e.file = uploaded_files[j]
                     /\ ~p.ok => e.outcome = p.error
                     /\ p.ok => e.outcome \in {"ok", "database error"}
                     /\ e.outcome # "ok" =>
                            \A notes \in {NotesOf(j)} :
                                Len(notes) = 1 /\ notes[1].level = "error"
            /\ combined_data.index =
                   SumSeq([j \in 1..Len(run) |->
                              IF run[j].outcome = "ok"
                              THEN outcomes[uploaded_files[j]].df.index ELSE 0])

\* C2 witness: a batch is done in which a file failed and a later one
\* was saved and appended
C2_Witness ==
    /\ pc = "done"
    /\ \E j, k \in 1..Len(ThisRun) :
          /\ j < k
          /\ ThisRun[j].outcome # "ok"
          /\ ThisRun[k].outcome = "ok"
    /\ combined_data.index > 0

C6_Tally ==
    (called = "save_invoice_data" /\ ~result.saved.raised) =>
        /\ result.saved.inserted_count + result.saved.skipped_count = table.index
        /\ Len(db) = Len(result.before) + result.saved.inserted_count
        /\ SubSeq(db, 1, Len(result.before)) = result.before
        /\ \A r \in 1..table.index :
              (\E k \in 1..Len(result.before) :
                   result.before[k].session_id = table.data[2][r])
              => result.saved.skipped_count >= 1

\* C6 witness: a call returned after skipping a row whose key was in the
\* store, with no other failure
C6_Witness ==
    /\ called = "save_invoice_data"
    /\ ~result.saved.raised
    /\ result.failing = {}
    /\ result.saved.skipped_count > 0
    /\ result.saved.inserted_count > 0

\* C7: standardize_dataframe returns the 4 canonical columns in the fixed
\* order and one record per row of the source table, for every role map.
C7_FourColumnsOneRecordPerRow ==
    called = "standardize_dataframe" =>
        /\ result.df.columns = CanonicalColumns
        /\ result.df.index = table.index

\* C8: when the batch is done the combined table, if it has rows, has
\* exactly the canonical columns, in order.
C8_CombinedColumns ==
    (pc = "done" /\ ~empty(combined_data)) => combined_data.columns = CanonicalColumns

\* C9: detect_columns never resolves full_name and short_name to the same
\* column.
C9_FullAndShortDiffer ==
    called = "detect_columns" =>
        ~(result.full_name # None /\ result.full_name = result.short_name)

\* C10: the file with header EVSE, Session, Currency, Net Price is processed
\* successfully, with one record per data row.
C10_EvseExample ==
    \A k \in 1..Len(log) :
        FileLib[log[k].file].name = <<"e","v","s","e",".","c","s","v">> =>
            /\ log[k].outcome = "ok"
            /\ log[k].rows = MaxRows

\* a missing cell, or a text that is empty or whitespace only
Blank(x) == isna(x) \/ (x.k = "str" /\ Strip(x.s) = <<>>)

\* C11: for every text x of at most 10 characters, generate_short_name is
\* idempotent: generate_short_name(generate_short_name(x)) =
\* generate_short_name(x).
C11_ShortNameIdempotent ==
    (called = "generate_short_name" /\ table.k = "str" /\ Len(table.s) <= 10) =>
        result.again = result.short

\* C15: generate_short_name returns "Unknown" for every missing or blank
\* input, never the empty text.
C15_BlankGivesUnknown ==
    (called = "generate_short_name" /\ Blank(table)) => result.short = Unknown

\* C12: for a parsed table that has rows, all of them header rows by
\* is_header_row, process_file raises "contains only headers and no data".
C12_AllHeaderRowsFail ==
    (/\ called = "process_file"
     /\ ~empty(table)
     /\ \A r \in 1..table.index : is_header_row(RowOf(table, r)))
    => /\ ~result.ok
       /\ result.error = "contains only headers and no data"

\* C12 witness: process_file failed so on a table of several rows, every
\* one a header row
C12_Witness ==
    /\ called = "process_file"
    /\ table.index >= 2
    /\ \A r \in 1..table.index : is_header_row(RowOf(table, r))
    /\ ~result.ok
    /\ result.error = "contains only headers and no data"

\* the cells of a row that are neither missing nor blank, as stripped text
CountedCells(row) ==
    SelectSeq(AsStr(SelectSeq(row, LAMBDA cell : ~isna(cell))),
              LAMBDA t : Strip(t) # <<>>)
KeywordHits(cells) == Len(SelectSeq(cells, LAMBDA t : HeaderKeyword(Strip(t))))
NonNumericHits(cells) ==
    Len(SelectSeq(cells, LAMBDA t : ~FloatParses(CommaToDot(Strip(t)))))

C14_Defaults ==
    called = "standardize_dataframe" =>
        \A dc \in {result.detected_columns}, out \in {result.df.data} :
            \A r \in 1..result.df.index :
                /\ ~Truthy(dc.full_name) => out[1][r] = Unknown
                /\ ~Truthy(dc.currency) => out[3][r] = Unknown
                /\ ~Truthy(dc.price) => isna(out[4][r])
                /\ Truthy(dc.price) =>
                       out[4][r] = to_numeric(ColumnOf(table, dc.price)[r])
                /\ (~Truthy(dc.short_name) /\ Truthy(dc.full_name)) =>
                       out[2][r] = IF isna(out[1][r]) THEN Unknown
                                   ELSE generate_short_name(out[1][r])
                /\ (~Truthy(dc.short_name) /\ ~Truthy(dc.full_name)) =>
                       out[2][r] = Unknown

====
